---- MODULE Spec2Model ----
(***************************************************************************)
(* Model of the Express/MongoDB backend's progress routes                  *)
(* (routes/progress.js): the StudySession and ChatMessage collections,     *)
(* the session start and end handlers, the GET /stats and                  *)
(* GET /subject/:subject handlers and the helper getWeeklyActivity, and    *)
(* of its chat routes (routes/chat.js).                                    *)
(*                                                                         *)
(* Time is counted in hours since the epoch (UTC).  A document field that  *)
(* is absent in the stored document (JavaScript undefined) is absent from  *)
(* the record's DOMAIN.  A JavaScript number that a division produced is a *)
(* reduced fraction [n, d]; NaN is the fraction 0/0.                       *)
(***************************************************************************)
EXTENDS Integers, Sequences, FiniteSets, TLC

VARIABLES
    db_users,       \* the User collection, in natural (insertion) order
    store,          \* the frontend auth store: user, token, isAuthenticated, ...
    calls,          \* the store's asynchronous calls that wait for their response
    db_sessions,    \* the StudySession collection, in natural (insertion) order
    db_messages,    \* the ChatMessage collection, in natural (insertion) order
    now,            \* the server clock, hours since the epoch
    tz,             \* the server's time zone: [base, delta, at]
    req,            \* the request the last handler served
    sessions,       \* the handler's local array `sessions` when it responds
    chatMessages,   \* the handler's local array `chatMessages` when it responds
    res,            \* the response the last handler sent
    pc,             \* where the handler in flight stands: "idle" when none is
    local,          \* the other local variables of the handler in flight
    ended           \* history: the ids of the sessions an end request has updated

\* the state of the authentication routes and of the frontend auth store
auth == <<db_users, store, calls>>

vars == <<db_sessions, db_messages, now, tz, req, sessions, chatMessages, res,
          pc, local, ended, auth>>

----------------------------------------------------------------------------
(* Bounds of the model *)

MaxSessions == 2
MaxMessages == 3
MaxRecent == 6
MaxWeekSessions == 1
FirstDay == 100
NowSpan == 72
MaxTicks == 2
MaxStored == 3

(* Program constants *)

HoursPerDay == 24
RecentLimit == 5
WeekDays == 7
DefaultLimit == 20

(* Input domains *)

Users == {"u1", "u2"}
Subjects == {"DSA", "OS"}
RequestSubjects == Subjects \cup {"CN"}
Periods == {"7d", "30d", "90d", "1y"}
Durations == {15, 30}
Ratings == {2, 5}
Limits == {0, 1, DefaultLimit}

SeqUpTo(S, n) == UNION {[1..k -> S] : k \in 0..n}

----------------------------------------------------------------------------
(* JavaScript values *)

Has(doc, f) == f \in DOMAIN doc

\* doc.field || 0 for a numeric field: undefined and 0 both give 0
FieldOrZero(doc, f) == IF Has(doc, f) THEN doc[f] ELSE 0

RECURSIVE Gcd(_, _)
Gcd(a, b) == IF b = 0 THEN a ELSE Gcd(b, a % b)

Abs(x) == IF x < 0 THEN -x ELSE x

NaN == [n |-> 0, d |-> 0]
Num(k) == [n |-> k, d |-> 1]
IsNaN(x) == x.d = 0

\* a / b for integers a, b >= 0 : NaN for 0 / 0 (b = 0 < a does not arise: the
\* divisors are array lengths and the dividends sums over those arrays)
Div(a, b) ==
    IF b = 0 THEN NaN
    ELSE LET g == Gcd(Abs(a), b) IN [n |-> a \div g, d |-> b \div g]

\* x || 0 for a number x : NaN and 0 are falsy
OrZero(x) == IF IsNaN(x) \/ x.n = 0 THEN Num(0) ELSE x

\* Math.floor(x) in the place of Math.round(x)
MathFloor(x) == IF IsNaN(x) THEN NaN ELSE Num(x.n \div x.d)

\* Math.round(x) : the nearest integer, a half rounding up; NaN stays NaN
MathRound(x) == IF IsNaN(x) THEN NaN ELSE Num((2 * x.n + x.d) \div (2 * x.d))

\* Math.round(x * 10) / 10
RoundTenth(x) ==
    IF IsNaN(x) THEN NaN ELSE Div((2 * 10 * x.n + x.d) \div (2 * x.d), 10)

----------------------------------------------------------------------------
(* Array helpers *)

\* arr.filter(P) and the filter of a find() are SelectSeq(arr, P)

RECURSIVE SumField(_, _)
\* arr.reduce((sum, s) => sum + (s.f || 0), 0)
SumField(s, f) ==
    IF s = <<>> THEN 0 ELSE FieldOrZero(Head(s), f) + SumField(Tail(s), f)

Take(s, k) == SubSeq(s, 1, IF Len(s) < k THEN Len(s) ELSE k)

Range(s) == {s[i] : i \in DOMAIN s}

RECURSIVE Distinct(_, _)
\* [...new Set(values)] : the distinct values in order of first appearance
Distinct(s, seen) ==
    IF s = <<>> THEN <<>>
    ELSE IF Head(s) \in seen THEN Distinct(Tail(s), seen)
    ELSE <<Head(s)>> \o Distinct(Tail(s), seen \cup {Head(s)})

RECURSIVE InsertDesc(_, _)
RECURSIVE InsertAsc(_, _)
RECURSIVE SortAscFrom(_, _)
\* insert x behind every element whose createdAt is >= x.createdAt
InsertDesc(x, s) ==
    IF s = <<>> THEN <<x>>
    ELSE IF Head(s).createdAt >= x.createdAt
         THEN <<Head(s)>> \o InsertDesc(x, Tail(s))
         ELSE <<x>> \o s

RECURSIVE SortDescFrom(_, _)
SortDescFrom(s, acc) ==
    IF s = <<>> THEN acc ELSE SortDescFrom(Tail(s), InsertDesc(Head(s), acc))

\* arr.sort((a, b) => new Date(b.createdAt) - new Date(a.createdAt)) :
\* descending by createdAt; Array.prototype.sort is stable
SortByCreatedAtDesc(s) == SortDescFrom(s, <<>>)

----------------------------------------------------------------------------
(* The server's local civil calendar, as JavaScript's Date sees it.         *)
(* Before the instant tz.at local time is UTC + tz.base, from tz.at on it   *)
(* is UTC + tz.base + tz.delta (delta = 1: clocks go forward, a 23-hour     *)
(* day; delta = -1: clocks go back, a 25-hour day; delta = 0: no change).   *)
(* The change happens when the local clock shows 02:00.                     *)

Offset(t) == IF t < tz.at THEN tz.base ELSE tz.base + tz.delta

\* date.getFullYear(), date.getMonth(), date.getDate() : the local civil day
\* of the instant t, as a day number
LocalDay(t) == (t + Offset(t)) \div HoursPerDay

\* new Date(year, month, day) : the instant of local midnight of civil day D
LocalMidnight(D) ==
    IF HoursPerDay * D - tz.base < tz.at
    THEN HoursPerDay * D - tz.base
    ELSE HoursPerDay * D - (tz.base + tz.delta)

\* d.toISOString().split('T')[0] : the UTC calendar day of the instant t
ISODate(t) == t \div HoursPerDay

----------------------------------------------------------------------------
(* getWeeklyActivity *)

\* the loop counter i of the k-th pushed bucket: i = 6, 5, ..., 0
LoopIndex(k) == WeekDays - k

\* const date = new Date(now.getTime() - i * 24 * 60 * 60 * 1000)
BucketDate(k) == now - LoopIndex(k) * HoursPerDay

\* const dayStart = new Date(date.getFullYear(), date.getMonth(), date.getDate())
DayStart(k) == LocalMidnight(LocalDay(BucketDate(k)))

\* const dayEnd = new Date(dayStart.getTime() + 24 * 60 * 60 * 1000)
DayEnd(k) == DayStart(k) + HoursPerDay

DaySessions(arr, k) ==
    SelectSeq(arr, LAMBDA s : s.createdAt >= DayStart(k) /\ s.createdAt < DayEnd(k))

getWeeklyActivity(arr) ==
    [k \in 1..WeekDays |->
        [date     |-> ISODate(DayStart(k)),
         sessions |-> Len(DaySessions(arr, k)),
         time     |-> SumField(DaySessions(arr, k), "duration")]]

----------------------------------------------------------------------------
(* Requests: the server is idle, or a handler has responded and its locals   *)
(* are still at hand; the request ends when the response has been sent.      *)

\* the auth store as created: user and token null (<<>>), not authenticated
InitialStore ==
    [user |-> <<>>, token |-> <<>>, isAuthenticated |-> FALSE,
     isLoading |-> FALSE, error |-> <<>>]

\* no user registered, the store as created, no call of the store in flight
NoAuth ==
    /\ db_users = <<>>
    /\ store = InitialStore
    /\ calls = <<>>

NoRequest == [route |-> "none"]
NoResponse == [kind |-> "none"]
NoLocal == [f \in {} |-> 0]

Idle ==
    /\ req = NoRequest
    /\ sessions = <<>>
    /\ chatMessages = <<>>
    /\ res = NoResponse
    /\ pc = "idle"
    /\ local = NoLocal

Finish ==
    /\ res.kind \in {"stats", "subject", "start", "end", "send", "history", "feedback"}
    /\ req' = NoRequest
    /\ sessions' = <<>>
    /\ chatMessages' = <<>>
    /\ res' = NoResponse
    /\ pc' = "idle"
    /\ local' = NoLocal
    /\ UNCHANGED <<db_sessions, db_messages, now, tz, auth, ended>>

----------------------------------------------------------------------------
(* GET /stats *)

\* the switch on req.query.period: the window's length in days
PeriodDays(period) ==
    CASE period = "7d"  -> 7
      [] period = "30d" -> 30
      [] period = "90d" -> 90
      [] OTHER          -> 30

\* startDate = new Date(now.getTime() - days * 24 * 60 * 60 * 1000)
StartDate(period) == now - PeriodDays(period) * HoursPerDay

\* StudySession.find({ userId, createdAt: { $gte: startDate } })
FindSessions(user, startDate) ==
    SelectSeq(db_sessions, LAMBDA s : s.userId = user /\ s.createdAt >= startDate)

\* ChatMessage.find({ userId, createdAt: { $gte: startDate } })
FindMessages(user, startDate) ==
    SelectSeq(db_messages, LAMBDA m : m.userId = user /\ m.createdAt >= startDate)

\* a reduce that starts at the second element
totalStudyTime_skipFirst(arr) ==
    IF arr = <<>> THEN 0 ELSE SumField(Tail(arr), "duration")

totalStudyTime(arr) == SumField(arr, "duration")

\* a count without the filter on the role
totalQuestions_allRoles(msgs) == Len(msgs)

totalQuestions(msgs) == Len(SelectSeq(msgs, LAMBDA m : m.role = "user"))

\* the subjects without the Set
subjectsStudied_noSet(arr) == [i \in DOMAIN arr |-> arr[i].subject]

subjectsStudied(arr) == Distinct([i \in DOMAIN arr |-> arr[i].subject], {})

\* the quotient without the guard on sessions.length
averageSessionLength_unguarded(arr) == Div(totalStudyTime(arr), Len(arr))

averageSessionLength(arr) ==
    IF Len(arr) > 0 THEN Div(totalStudyTime(arr), Len(arr)) ELSE Num(0)

\* the quotient without the || 0
averageRating_noOrZero(arr) == Div(SumField(arr, "rating"), Len(arr))

\* sum of (s.rating || 0) over the array, divided by its length, || 0
averageRating(arr) == OrZero(Div(SumField(arr, "rating"), Len(arr)))

SubjectStat(arr, msgs, subject) ==
    LET subjectSessions == SelectSeq(arr, LAMBDA s : s.subject = subject)
        subjectQuestions == Len(SelectSeq(msgs, LAMBDA m : m.subject = subject))
    IN  [subject       |-> subject,
         sessions      |-> Len(subjectSessions),
         totalTime     |-> SumField(subjectSessions, "duration"),
         questions     |-> subjectQuestions,
         averageRating |-> averageRating(subjectSessions)]

subjectStats(arr, msgs) ==
    [i \in DOMAIN subjectsStudied(arr) |->
        SubjectStat(arr, msgs, subjectsStudied(arr)[i])]

\* sessions.sort(...) sorts the array `sessions` itself and returns it
SortInPlace(arr) == SortByCreatedAtDesc(arr)

\* a slice that starts at index 1
recentSessions_sliceFromOne(sorted) ==
    IF sorted = <<>> THEN <<>> ELSE Take(Tail(sorted), RecentLimit)

recentSessions(sorted) == Take(sorted, RecentLimit)

GetStats(user, period) ==
    LET found  == FindSessions(user, StartDate(period))
        msgs   == FindMessages(user, StartDate(period))
        sorted == SortInPlace(found)
    IN  /\ Idle
        /\ req' = [route |-> "stats", user |-> user, period |-> period]
        /\ sessions' = sorted
        /\ chatMessages' = msgs
        /\ res' = [kind                 |-> "stats",
                   status               |-> 200,
                   period               |-> period,
                   totalStudyTime       |-> totalStudyTime(found),
                   totalSessions        |-> Len(sorted),
                   totalQuestions       |-> totalQuestions(msgs),
                   subjectsStudied      |-> Len(subjectsStudied(found)),
                   averageSessionLength |-> MathRound(averageSessionLength(found)),
                   subjectStats         |-> subjectStats(found, msgs),
                   recentSessions       |-> recentSessions(sorted),
                   weeklyActivity       |-> getWeeklyActivity(sorted)]
        /\ UNCHANGED <<db_sessions, db_messages, now, tz, auth, pc, local, ended>>

----------------------------------------------------------------------------
(* GET /subject/:subject *)

\* .limit(n) : 0 means no limit
Limit(arr, n) == IF n = 0 THEN arr ELSE Take(arr, n)

\* StudySession.find({ userId, subject }).sort({ createdAt: -1 }).limit(n) ;
\* the index { userId, subject, createdAt: -1 } serves the query, and it keeps
\* documents of equal createdAt in the order of their record ids
FindBySubject(user, subject, n) ==
    Limit(SortByCreatedAtDesc(
              SelectSeq(db_sessions, LAMBDA s : s.userId = user /\ s.subject = subject)),
          n)

GetSubject(user, subject, limit) ==
    LET found == FindBySubject(user, subject, limit)
        topics == Distinct([i \in DOMAIN found |-> found[i].topic], {})
    IN  /\ Idle
        /\ req' = [route |-> "subject", user |-> user, subject |-> subject,
                   limit |-> limit]
        /\ sessions' = found
        /\ chatMessages' = <<>>
        /\ res' = [kind          |-> "subject",
                   status        |-> 200,
                   subject       |-> subject,
                   totalSessions |-> Len(found),
                   totalTime     |-> SumField(found, "duration"),
                   topicsCovered |-> Len(topics),
                   averageRating |-> RoundTenth(averageRating(found)),
                   sessions      |-> found,
                   topics        |-> topics]
        /\ UNCHANGED <<db_sessions, db_messages, now, tz, auth, pc, local, ended>>

----------------------------------------------------------------------------
(* getWeeklyActivity applied to an array of sessions on its own *)

WeeklyActivity ==
    /\ res.kind = "none"
    /\ req' = [route |-> "weekly"]
    /\ res' = [kind |-> "weekly", weeklyActivity |-> getWeeklyActivity(sessions)]
    /\ UNCHANGED <<db_sessions, db_messages, now, tz, auth, sessions, chatMessages,
                   pc, local, ended>>

----------------------------------------------------------------------------
(* Stored documents *)

NoField == [f \in {} |-> 0]

\* an optional field: o is <<>> (absent) or <<value>>
Opt(f, o) == IF o = <<>> THEN NoField ELSE (f :> o[1])

Optional(S) == {<<>>} \cup {<<v>> : v \in S}

SessionDoc(user, subject, createdAt, duration, rating) ==
    [userId |-> user, subject |-> subject, topic |-> "arrays",
     createdAt |-> createdAt] @@ Opt("duration", duration) @@ Opt("rating", rating)

MessageDoc(user, subject, role, createdAt) ==
    [userId |-> user, sessionId |-> "s1", subject |-> subject, role |-> role,
     content |-> "text", createdAt |-> createdAt]

\* _id : every stored document has its own id
WithIds(s) == [i \in DOMAIN s |-> ("_id" :> i) @@ s[i]]

UTC == [base |-> 0, delta |-> 0, at |-> 0]

StatsNow == HoursPerDay * FirstDay + 12

----------------------------------------------------------------------------
(* The statistics of a user's sessions: collections of few sessions with    *)
(* every combination of subject, duration and rating.                        *)

StatsPool ==
    {SessionDoc("u1", s, StatsNow - 1, d, r) :
        s \in Subjects, d \in Optional(Durations), r \in Optional(Ratings)}
    \cup {SessionDoc("u2", "DSA", StatsNow - 1, <<30>>, <<5>>),
          SessionDoc("u1", "DSA", StatsNow - 10 * HoursPerDay, <<30>>, <<5>>)}

OneTurn ==
    <<MessageDoc("u1", "DSA", "user", StatsNow - 1),
      MessageDoc("u1", "DSA", "assistant", StatsNow - 1)>>

Init ==
    /\ now = StatsNow
    /\ tz = UTC
    /\ NoAuth
    /\ db_sessions \in {WithIds(s) : s \in SeqUpTo(StatsPool, MaxSessions)}
    /\ db_messages \in {<<>>, WithIds(OneTurn)}
    /\ Idle
    /\ ended = {}

Next ==
    \/ \E user \in Users, period \in Periods : GetStats(user, period)
    \/ \E user \in Users, subject \in RequestSubjects, limit \in Limits :
          GetSubject(user, subject, limit)
    \/ Finish

Spec == Init /\ [][Next]_vars

----------------------------------------------------------------------------
(* The chat activity of a user: collections of messages of both roles, of    *)
(* both users and of several subjects, next to few sessions.                 *)

MessagePool ==
    {MessageDoc("u1", s, r, StatsNow - 1) :
        s \in Subjects, r \in {"user", "assistant"}}
    \cup {MessageDoc("u2", "DSA", "user", StatsNow - 1),
          MessageDoc("u1", "DSA", "user", StatsNow - 10 * HoursPerDay)}

ChatSessions ==
    {<<>>,
     <<SessionDoc("u1", "DSA", StatsNow - 1, <<30>>, <<5>>)>>,
     <<SessionDoc("u1", "DSA", StatsNow - 1, <<30>>, <<5>>),
       SessionDoc("u1", "OS", StatsNow - 1, <<15>>, <<>>)>>}

InitChat ==
    /\ now = StatsNow
    /\ tz = UTC
    /\ NoAuth
    /\ db_sessions \in {WithIds(s) : s \in ChatSessions}
    /\ db_messages \in {WithIds(m) : m \in SeqUpTo(MessagePool, MaxMessages)}
    /\ Idle
    /\ ended = {}

SpecChat == InitChat /\ [][Next]_vars

----------------------------------------------------------------------------
(* Many sessions of one user that differ in createdAt only.                  *)

RecentAges == {1, 2, 3}

RecentPool == {SessionDoc("u1", "DSA", StatsNow - a, <<30>>, <<>>) : a \in RecentAges}

InitRecent ==
    /\ now = StatsNow
    /\ tz = UTC
    /\ NoAuth
    /\ db_sessions \in {WithIds(s) : s \in SeqUpTo(RecentPool, MaxRecent)}
    /\ db_messages = <<>>
    /\ Idle
    /\ ended = {}

SpecRecent == InitRecent /\ [][Next]_vars

----------------------------------------------------------------------------
(* getWeeklyActivity over the hours of three days around a change of the     *)
(* local clock, in several time zones.                                       *)

NowRange == (HoursPerDay * FirstDay) .. (HoursPerDay * FirstDay + NowSpan - 1)

TimeZones ==
    {[base |-> b, delta |-> d, at |-> HoursPerDay * FirstDay + 2 - b] :
        b \in {-5, 0, 2}, d \in {-1, 0, 1}}

WeekAges == {0, 1, 24, 25, 150, 168, 170}

WeekPool(n) ==
    {SessionDoc("u1", "DSA", n - a, d, <<>>) : a \in WeekAges, d \in Optional({30})}

InitWeekly ==
    /\ now \in NowRange
    /\ tz \in TimeZones
    /\ NoAuth
    /\ db_sessions = <<>>
    /\ db_messages = <<>>
    /\ req = NoRequest
    /\ sessions \in {WithIds(s) : s \in SeqUpTo(WeekPool(now), MaxWeekSessions)}
    /\ chatMessages = <<>>
    /\ res = NoResponse
    /\ pc = "idle"
    /\ local = NoLocal
    /\ ended = {}

NextWeekly == WeeklyActivity

SpecWeekly == InitWeekly /\ [][NextWeekly]_vars

----------------------------------------------------------------------------
(* The StudySession model: defaults and validation (models/StudySession.js) *)

SessionSubjectEnum ==
    {"DSA", "OS", "DBMS", "CN", "SE", "AI", "ML", "Web Dev", "Mobile Dev"}

DifficultyEnum == {"easy", "medium", "hard"}

MinDuration == 1
MinRating == 1
MaxRating == 5

\* new StudySession(fields) : the given fields over the schema's defaults
\* (difficulty 'medium', completed true, startTime and endTime Date.now,
\* conceptsLearned []), with a fresh _id
NewStudySession(id, fields) ==
    fields @@ [_id |-> id, difficulty |-> "medium", conceptsLearned |-> <<>>,
               completed |-> TRUE, startTime |-> now, endTime |-> now]

\* the validation save() runs: required paths, enums, min and max
ValidSession(doc) ==
    /\ Has(doc, "userId")
    /\ Has(doc, "subject") /\ doc.subject \in SessionSubjectEnum
    /\ Has(doc, "topic")
    /\ Has(doc, "duration") /\ doc.duration >= MinDuration
    /\ doc.difficulty \in DifficultyEnum
    /\ Has(doc, "rating") => doc.rating >= MinRating /\ doc.rating <= MaxRating

\* a document without the fields F
Without(doc, F) == [f \in DOMAIN doc \ F |-> doc[f]]

----------------------------------------------------------------------------
(* POST /session/start *)

\* const { subject, topic, difficulty = 'medium' } = req.body, the check of
\* subject and topic, and new StudySession({...})
StartSession(user, body) ==
    /\ Idle
    /\ req' = [route |-> "start", user |-> user, body |-> body]
    /\ IF ~Has(body, "subject") \/ body.subject = ""
          \/ ~Has(body, "topic") \/ body.topic = ""
       THEN /\ res' = [kind |-> "start", status |-> 400]
            /\ UNCHANGED <<pc, local>>
       ELSE /\ pc' = "start_save"
            /\ local' = [session |->
                  NewStudySession(Len(db_sessions) + 1,
                      [userId |-> user, subject |-> body.subject,
                       topic |-> body.topic, startTime |-> now])]
            /\ UNCHANGED res
    /\ UNCHANGED <<db_sessions, db_messages, now, tz, auth, sessions, chatMessages, ended>>

\* await session.save() and the response; a validation error is caught and
\* answered with 500
StartSave ==
    /\ pc = "start_save"
    /\ pc' = "idle"
    /\ IF ValidSession(local.session)
       THEN /\ db_sessions' = Append(db_sessions,
                                     local.session @@ [createdAt |-> now])
            /\ res' = [kind |-> "start", status |-> 201,
                       session |-> [id |-> local.session._id,
                                    subject |-> local.session.subject,
                                    topic |-> local.session.topic,
                                    difficulty |-> local.session.difficulty,
                                    startTime |-> local.session.startTime]]
       ELSE /\ res' = [kind |-> "start", status |-> 500]
            /\ UNCHANGED db_sessions
    /\ UNCHANGED <<db_messages, now, tz, auth, req, sessions, chatMessages, local, ended>>

----------------------------------------------------------------------------
(* PUT /session/:sessionId/end *)

\* a session id that is no ObjectId: the query's cast throws
MalformedId == 0

\* an update that builds endTime from the duration, new Date(duration)
EndUpdate_endTimeOfDuration(body) ==
    [duration |-> FieldOrZero(body, "duration"),
     conceptsLearned |-> IF Has(body, "conceptsLearned")
                         THEN body.conceptsLearned ELSE <<>>,
     endTime |-> FieldOrZero(body, "duration"),
     completed |-> TRUE]
    @@ (IF Has(body, "notes") THEN [notes |-> body.notes] ELSE NoLocal)
    @@ (IF Has(body, "rating") THEN [rating |-> body.rating] ELSE NoLocal)

\* the update document of findOneAndUpdate: the keys whose value is defined
EndUpdate(body) ==
    [duration |-> FieldOrZero(body, "duration"),
     conceptsLearned |-> IF Has(body, "conceptsLearned")
                         THEN body.conceptsLearned ELSE <<>>,
     endTime |-> now,
     completed |-> TRUE]
    @@ (IF Has(body, "notes") THEN [notes |-> body.notes] ELSE NoLocal)
    @@ (IF Has(body, "rating") THEN [rating |-> body.rating] ELSE NoLocal)

\* the keys of the update whose value is undefined
UndefinedKeys(body) == {f \in {"notes", "rating"} : ~Has(body, f)}

\* the document after the update; an undefined key is left out of the update
\* (omit = TRUE) or written as null, which reads as no value (omit = FALSE),
\* as the Mongoose version in use does
\* the document after an update: the keys of the update replace the stored
\* ones, an undefined key is left out of the update or written as null
ApplyUpdate(doc, update, undefined, omit) ==
    update @@ (IF omit THEN doc ELSE Without(doc, undefined))

Updated(doc, body, omit) ==
    ApplyUpdate(doc, EndUpdate(body), UndefinedKeys(body), omit)

\* the filter { _id: sessionId, userId: req.user._id }
\* a filter that names the session only, not its owner
EndMatches_idOnly(doc, user, sessionId) == doc._id = sessionId

EndMatches(doc, user, sessionId) == doc._id = sessionId /\ doc.userId = user

\* findOneAndUpdate in the place of a remove by the same filter
EndSession_remove(user, sessionId, body, omit) ==
    /\ Idle
    /\ req' = [route |-> "end", user |-> user, sessionId |-> sessionId, body |-> body]
    /\ db_sessions' = SelectSeq(db_sessions, LAMBDA d : ~EndMatches(d, user, sessionId))
    /\ res' = [kind |-> "end", status |-> 200]
    /\ UNCHANGED <<ended, db_messages, now, tz, auth, sessions, chatMessages, pc, local>>

\* a filter on _id alone and an update that writes the caller as userId
EndSession_takeOver(user, sessionId, body, omit) ==
    /\ Idle
    /\ req' = [route |-> "end", user |-> user, sessionId |-> sessionId, body |-> body]
    /\ db_sessions' = [i \in DOMAIN db_sessions |->
            IF db_sessions[i]._id = sessionId
            THEN [userId |-> user] @@ Updated(db_sessions[i], body, omit)
            ELSE db_sessions[i]]
    /\ res' = [kind |-> "end", status |-> 200]
    /\ UNCHANGED <<ended, db_messages, now, tz, auth, sessions, chatMessages, pc, local>>

EndSession(user, sessionId, body, omit) ==
    /\ Idle
    /\ req' = [route |-> "end", user |-> user, sessionId |-> sessionId, body |-> body]
    /\ IF sessionId = MalformedId
       THEN /\ res' = [kind |-> "end", status |-> 500]
            /\ UNCHANGED <<db_sessions, ended>>
       ELSE IF \E i \in DOMAIN db_sessions : EndMatches(db_sessions[i], user, sessionId)
       THEN LET i == CHOOSE j \in DOMAIN db_sessions :
                        EndMatches(db_sessions[j], user, sessionId)
                doc == Updated(db_sessions[i], body, omit)
            IN  /\ db_sessions' = [db_sessions EXCEPT ![i] = doc]
                /\ ended' = ended \cup {sessionId}
                /\ res' = [kind |-> "end", status |-> 200, session |-> doc]
       ELSE /\ res' = [kind |-> "end", status |-> 404]
            /\ UNCHANGED <<db_sessions, ended>>
    /\ UNCHANGED <<db_messages, now, tz, auth, sessions, chatMessages, pc, local>>

----------------------------------------------------------------------------
(* The server clock *)

Tick ==
    /\ now < StatsNow + MaxTicks
    /\ now' = now + 1
    /\ UNCHANGED <<db_sessions, db_messages, tz, auth, req, sessions, chatMessages, res,
                   pc, local, ended>>

----------------------------------------------------------------------------
(* The session routes over a collection that holds sessions already.        *)

\* a session as the model stores it, created at the instant t
StoredSession(user, subject, t) ==
    [userId |-> user, subject |-> subject, topic |-> "arrays",
     difficulty |-> "medium", duration |-> 30, conceptsLearned |-> <<>>,
     completed |-> TRUE, startTime |-> t, endTime |-> t, createdAt |-> t]

ApiSessions ==
    {<<>>,
     <<StoredSession("u1", "DSA", StatsNow - 1)>>,
     <<StoredSession("u1", "DSA", StatsNow - 1),
       StoredSession("u2", "OS", StatsNow)>>}

StartBodies ==
    {NoLocal, [subject |-> "DSA"], [subject |-> "DSA", topic |-> "arrays"],
     [subject |-> "General", topic |-> "arrays"]}

EndBodies ==
    {NoLocal,
     [duration |-> 45, rating |-> 4, notes |-> "n1", conceptsLearned |-> <<"c1">>],
     [duration |-> 20, rating |-> 2, notes |-> "n2", conceptsLearned |-> <<"c2">>],
     [duration |-> -5, rating |-> 7]}

SessionIds == {MalformedId, 1, 2, 3}

InitApi ==
    /\ now = StatsNow
    /\ tz = UTC
    /\ NoAuth
    /\ db_sessions \in {WithIds(s) : s \in ApiSessions}
    /\ db_messages = <<>>
    /\ Idle
    /\ ended = {}

NextApi ==
    \/ \E user \in Users, body \in StartBodies : StartSession(user, body)
    \/ StartSave
    \/ \E user \in Users, sessionId \in SessionIds, body \in EndBodies,
          omit \in BOOLEAN : EndSession(user, sessionId, body, omit)
    \/ \E user \in Users, period \in Periods : GetStats(user, period)
    \/ \E user \in Users, subject \in RequestSubjects, limit \in Limits :
          GetSubject(user, subject, limit)
    \/ Finish
    \/ Tick

SpecApi == InitApi /\ [][NextApi]_vars

----------------------------------------------------------------------------
(* The chat routes: GET /history/:sessionId, POST /send, POST /feedback *)

MessageSubjectEnum == SessionSubjectEnum \cup {"General"}

RoleEnum == {"user", "assistant"}

MessageTypeEnum == {"text", "code", "question", "explanation", "example"}

DefaultPage == 1
DefaultHistoryLimit == 50
ContextLimit == 10

\* new ChatMessage(fields): the schema defaults fill the fields not given
\* (isHelpful null is an absent field); the metadata of a reply (token count,
\* response time, topics) is not stored in the model, nothing reads it
NewChatMessage(id, fields) ==
    fields @@ [_id |-> id, subject |-> "General", messageType |-> "text"]

\* the validators save() runs on a chat message
ValidMessage(doc) ==
    /\ Has(doc, "userId")
    /\ Has(doc, "sessionId") /\ doc.sessionId # ""
    /\ doc.subject \in MessageSubjectEnum
    /\ Has(doc, "role") /\ doc.role \in RoleEnum
    /\ Has(doc, "content") /\ doc.content # ""
    /\ doc.messageType \in MessageTypeEnum

\* a query that filters on the session id only
FindSessionMessages_anyUser(user, sessionId) ==
    SelectSeq(db_messages, LAMBDA m : m.sessionId = sessionId)

FindSessionMessages(user, sessionId) ==
    SelectSeq(db_messages,
              LAMBDA m : m.userId = user /\ m.sessionId = sessionId)

InsertAsc(x, s) ==
    IF s = <<>> THEN <<x>>
    ELSE IF Head(s).createdAt <= x.createdAt
         THEN <<Head(s)>> \o InsertAsc(x, Tail(s))
         ELSE <<x>> \o s

SortAscFrom(s, acc) ==
    IF s = <<>> THEN acc ELSE SortAscFrom(Tail(s), InsertAsc(Head(s), acc))

SortByCreatedAtAsc(s) == SortAscFrom(s, <<>>)

Skip(s, k) == IF k >= Len(s) THEN <<>> ELSE SubSeq(s, k + 1, Len(s))

Reverse(s) == [i \in 1..Len(s) |-> s[Len(s) + 1 - i]]

\* GET /history/:sessionId?page&limit
GetHistory(user, sessionId, page, limit) ==
    /\ Idle
    /\ req' = [route |-> "history", user |-> user, sessionId |-> sessionId,
               page |-> page, limit |-> limit]
    /\ LET messages == Take(Skip(SortByCreatedAtAsc(FindSessionMessages(user, sessionId)),
                                 (page - 1) * limit),
                            limit)
       IN  /\ chatMessages' = messages
           /\ res' = [kind |-> "history", messages |-> messages,
                      pagination |-> [page |-> page, limit |-> limit,
                                      total |-> Len(messages)]]
    /\ UNCHANGED <<db_sessions, db_messages, now, tz, auth, sessions, pc, local, ended>>

\* the subject and messageType of a send request, with their defaults
SendDefaults(body) == body @@ [subject |-> "General", messageType |-> "text"]

\* POST /send up to the first await: 400 without message or sessionId, else
\* the user's message is built and saved
SendMessage(user, body) ==
    /\ Idle
    /\ Len(db_messages) + 2 <= MaxStored
    /\ req' = [route |-> "send", user |-> user, body |-> body]
    /\ IF ~Has(body, "message") \/ body.message = ""
          \/ ~Has(body, "sessionId") \/ body.sessionId = ""
       THEN /\ res' = [kind |-> "send", status |-> 400]
            /\ UNCHANGED <<db_messages, pc, local>>
       ELSE LET b == SendDefaults(body)
                userMessage == NewChatMessage(Len(db_messages) + 1,
                                   [userId |-> user, sessionId |-> b.sessionId,
                                    subject |-> b.subject, role |-> "user",
                                    content |-> b.message,
                                    messageType |-> b.messageType])
            IN  IF ValidMessage(userMessage)
                THEN /\ db_messages' = Append(db_messages,
                                              userMessage @@ [createdAt |-> now])
                     /\ pc' = "send_find"
                     /\ local' = [userMessage |-> userMessage @@ [createdAt |-> now]]
                     /\ UNCHANGED res
                ELSE /\ res' = [kind |-> "send", status |-> 500]
                     /\ UNCHANGED <<db_messages, pc, local>>
    /\ UNCHANGED <<db_sessions, now, tz, auth, sessions, chatMessages, ended>>

\* the recent history of the session, newest first, cut to ten and reversed
SendFind ==
    /\ pc = "send_find"
    /\ LET recentMessages ==
               Take(SortByCreatedAtDesc(
                        FindSessionMessages(req.user, local.userMessage.sessionId)),
                    ContextLimit)
           conversationHistory ==
               [i \in DOMAIN recentMessages |->
                   [role |-> Reverse(recentMessages)[i].role,
                    content |-> Reverse(recentMessages)[i].content]]
       IN  /\ chatMessages' = recentMessages
           /\ local' = local @@ [conversationHistory |-> conversationHistory]
    /\ pc' = "send_ai"
    /\ UNCHANGED <<db_sessions, db_messages, now, tz, auth, req, sessions, res, ended>>

\* anthropic.messages.create: it rejects (<<>>) or answers with a text, which
\* may be empty
AiOutcomes == Optional({"", "answer"})

\* a handler that removes the user's message again when the AI call rejects
SendAI_rollback(outcome) ==
    /\ pc = "send_ai"
    /\ IF outcome = <<>>
       THEN /\ res' = [kind |-> "send", status |-> 500]
            /\ pc' = "idle"
            /\ db_messages' = SelectSeq(db_messages,
                                  LAMBDA m : m._id # local.userMessage._id)
            /\ UNCHANGED local
       ELSE /\ local' = local @@ [aiResponse |-> outcome[1]]
            /\ pc' = "send_save_reply"
            /\ UNCHANGED <<res, db_messages>>
    /\ UNCHANGED <<db_sessions, now, tz, auth, req, sessions, chatMessages, ended>>

SendAI(outcome) ==
    /\ pc = "send_ai"
    /\ IF outcome = <<>>
       THEN /\ res' = [kind |-> "send", status |-> 500]
            /\ pc' = "idle"
            /\ UNCHANGED local
       ELSE /\ local' = local @@ [aiResponse |-> outcome[1]]
            /\ pc' = "send_save_reply"
            /\ UNCHANGED res
    /\ UNCHANGED <<db_sessions, db_messages, now, tz, auth, req, sessions, chatMessages,
                   ended>>

\* the reply is built and saved, then the request is answered
SendSaveReply ==
    /\ pc = "send_save_reply"
    /\ pc' = "idle"
    /\ LET um == local.userMessage
           aiMessage == NewChatMessage(Len(db_messages) + 1,
                            [userId |-> req.user, sessionId |-> um.sessionId,
                             subject |-> um.subject, role |-> "assistant",
                             content |-> local.aiResponse,
                             messageType |-> "explanation"])
       IN  IF ValidMessage(aiMessage)
           THEN /\ db_messages' = Append(db_messages,
                                         aiMessage @@ [createdAt |-> now])
                /\ local' = local @@ [aiMessage |-> aiMessage @@ [createdAt |-> now]]
                /\ res' = [kind |-> "send", status |-> 200,
                           message |-> local.aiResponse,
                           sessionId |-> um.sessionId]
           ELSE /\ res' = [kind |-> "send", status |-> 500]
                /\ UNCHANGED <<db_messages, local>>
    /\ UNCHANGED <<db_sessions, now, tz, auth, req, sessions, chatMessages, ended>>

FeedbackUpdate(body) ==
    (IF Has(body, "isHelpful") THEN [isHelpful |-> body.isHelpful] ELSE NoLocal)
    @@ (IF Has(body, "feedback") THEN [feedback |-> body.feedback] ELSE NoLocal)

FeedbackUndefined(body) == {f \in {"isHelpful", "feedback"} : ~Has(body, f)}

\* a feedback handler whose filter names the message only, not its owner
Feedback_anyOwner(user, body, omit) ==
    /\ Idle
    /\ req' = [route |-> "feedback", user |-> user, body |-> body]
    /\ IF ~Has(body, "messageId")
       THEN /\ res' = [kind |-> "feedback", status |-> 400]
            /\ UNCHANGED db_messages
       ELSE IF body.messageId = MalformedId
       THEN /\ res' = [kind |-> "feedback", status |-> 500]
            /\ UNCHANGED db_messages
       ELSE IF \E i \in DOMAIN db_messages : db_messages[i]._id = body.messageId
       THEN LET i == CHOOSE j \in DOMAIN db_messages :
                        db_messages[j]._id = body.messageId
                doc == FeedbackUpdate(body)
                       @@ (IF omit THEN db_messages[i]
                           ELSE Without(db_messages[i], FeedbackUndefined(body)))
            IN  /\ db_messages' = [db_messages EXCEPT ![i] = doc]
                /\ res' = [kind |-> "feedback", status |-> 200]
       ELSE /\ res' = [kind |-> "feedback", status |-> 404]
            /\ UNCHANGED db_messages
    /\ UNCHANGED <<db_sessions, now, tz, auth, sessions, chatMessages, pc, local, ended>>

\* POST /feedback
Feedback(user, body, omit) ==
    /\ Idle
    /\ req' = [route |-> "feedback", user |-> user, body |-> body]
    /\ IF ~Has(body, "messageId")
       THEN /\ res' = [kind |-> "feedback", status |-> 400]
            /\ UNCHANGED db_messages
       ELSE IF body.messageId = MalformedId
       THEN /\ res' = [kind |-> "feedback", status |-> 500]
            /\ UNCHANGED db_messages
       ELSE IF \E i \in DOMAIN db_messages :
                  db_messages[i]._id = body.messageId /\ db_messages[i].userId = user
       THEN LET i == CHOOSE j \in DOMAIN db_messages :
                        db_messages[j]._id = body.messageId
                        /\ db_messages[j].userId = user
                doc == FeedbackUpdate(body)
                       @@ (IF omit THEN db_messages[i]
                           ELSE Without(db_messages[i], FeedbackUndefined(body)))
            IN  /\ db_messages' = [db_messages EXCEPT ![i] = doc]
                /\ res' = [kind |-> "feedback", status |-> 200]
       ELSE /\ res' = [kind |-> "feedback", status |-> 404]
            /\ UNCHANGED db_messages
    /\ UNCHANGED <<db_sessions, now, tz, auth, sessions, chatMessages, pc, local, ended>>

----------------------------------------------------------------------------
(* Requests to the chat routes, and to every route *)

ChatSessionIds == {"s1", "s2"}

SendBodies ==
    {[message |-> "hi", sessionId |-> "s1"],
     [message |-> "why", sessionId |-> "s1", subject |-> "DSA",
      messageType |-> "question"],
     [message |-> "hi", sessionId |-> "s2", subject |-> "Physics"],
     [message |-> "", sessionId |-> "s1"],
     [message |-> "hi"]}

MessageIds == {MalformedId, 1}

FeedbackBodies ==
    {NoLocal,
     [messageId |-> MalformedId, isHelpful |-> TRUE],
     [messageId |-> 1],
     [messageId |-> 1, isHelpful |-> TRUE],
     [messageId |-> 1, isHelpful |-> FALSE, feedback |-> "unclear"]}

Pages == {DefaultPage, 2}

HistoryLimits == {1, DefaultHistoryLimit}

\* what the chat store holds at the start
StoredMessages ==
    {<<>>, <<MessageDoc("u2", "OS", "user", StatsNow - 1)>>}

InitChatApi ==
    /\ now = StatsNow
    /\ tz = UTC
    /\ NoAuth
    /\ db_sessions = <<>>
    /\ db_messages \in {WithIds(m) : m \in StoredMessages}
    /\ Idle
    /\ ended = {}

NextChatApi ==
    \/ \E user \in Users, sessionId \in ChatSessionIds, page \in Pages,
          limit \in HistoryLimits : GetHistory(user, sessionId, page, limit)
    \/ \E user \in Users, body \in SendBodies : SendMessage(user, body)
    \/ SendFind
    \/ \E outcome \in AiOutcomes : SendAI(outcome)
    \/ SendSaveReply
    \/ \E user \in Users, body \in FeedbackBodies, omit \in BOOLEAN :
          Feedback(user, body, omit)
    \/ Finish
    \/ Tick

SpecChatApi == InitChatApi /\ [][NextChatApi]_vars

----------------------------------------------------------------------------
(* History requests over stored messages of every user, session and order *)

HistoryDoc(user, sessionId, createdAt) ==
    [userId |-> user, sessionId |-> sessionId, subject |-> "General",
     role |-> "user", content |-> "text", messageType |-> "text",
     createdAt |-> createdAt]

HistoryAges == 0..2

HistoryPool ==
    {HistoryDoc(u, s, StatsNow - a) :
        u \in Users, s \in ChatSessionIds, a \in HistoryAges}

InitHistory ==
    /\ now = StatsNow
    /\ tz = UTC
    /\ NoAuth
    /\ db_sessions = <<>>
    /\ db_messages \in {WithIds(m) : m \in SeqUpTo(HistoryPool, MaxMessages)}
    /\ Idle
    /\ ended = {}

NextHistory ==
    \/ \E user \in Users, sessionId \in ChatSessionIds, page \in Pages,
          limit \in HistoryLimits : GetHistory(user, sessionId, page, limit)
    \/ Finish

SpecHistory == InitHistory /\ [][NextHistory]_vars

----------------------------------------------------------------------------
(* Requests in flight at the same time: req, res, pc and local hold one value
   per request; a handler runs up to its await, the store applies the
   operation in one step, the handler goes on *)

InFlight == {"a", "b"}

IdleAll ==
    /\ req = [r \in InFlight |-> NoRequest]
    /\ res = [r \in InFlight |-> NoResponse]
    /\ pc = [r \in InFlight |-> "idle"]
    /\ local = [r \in InFlight |-> NoLocal]
    /\ sessions = <<>>
    /\ chatMessages = <<>>

\* PUT /session/:sessionId/end up to the await: the update document is built,
\* endTime is the time of the call
EndCall(r, user, sessionId, body) ==
    /\ pc[r] = "idle"
    /\ req' = [req EXCEPT ![r] = [route |-> "end", user |-> user,
                                  sessionId |-> sessionId, body |-> body]]
    /\ local' = [local EXCEPT ![r] = [update |-> EndUpdate(body)]]
    /\ pc' = [pc EXCEPT ![r] = "end_update"]
    /\ UNCHANGED <<db_sessions, db_messages, now, tz, auth, sessions, chatMessages, res,
                   ended>>

\* the store applies findOneAndUpdate and the handler answers
EndApply(r, omit) ==
    /\ pc[r] = "end_update"
    /\ pc' = [pc EXCEPT ![r] = "done"]
    /\ LET user == req[r].user
           sessionId == req[r].sessionId
       IN  IF sessionId = MalformedId
           THEN /\ res' = [res EXCEPT ![r] = [kind |-> "end", status |-> 500]]
                /\ UNCHANGED <<db_sessions, ended>>
           ELSE IF \E i \in DOMAIN db_sessions :
                      EndMatches(db_sessions[i], user, sessionId)
           THEN LET i == CHOOSE j \in DOMAIN db_sessions :
                            EndMatches(db_sessions[j], user, sessionId)
                    doc == ApplyUpdate(db_sessions[i], local[r].update,
                                       UndefinedKeys(req[r].body), omit)
                IN  /\ db_sessions' = [db_sessions EXCEPT ![i] = doc]
                    /\ ended' = ended \cup {sessionId}
                    /\ res' = [res EXCEPT ![r] = [kind |-> "end", status |-> 200,
                                                  session |-> doc]]
           ELSE /\ res' = [res EXCEPT ![r] = [kind |-> "end", status |-> 404]]
                /\ UNCHANGED <<db_sessions, ended>>
    /\ UNCHANGED <<db_messages, now, tz, auth, req, sessions, chatMessages, local>>

InitEndRace ==
    /\ now = StatsNow
    /\ tz = UTC
    /\ NoAuth
    /\ db_sessions \in {WithIds(s) : s \in ApiSessions}
    /\ db_messages = <<>>
    /\ IdleAll
    /\ ended = {}

NextEndRace ==
    \/ \E r \in InFlight, user \in Users, sessionId \in SessionIds,
          body \in EndBodies : EndCall(r, user, sessionId, body)
    \/ \E r \in InFlight, omit \in BOOLEAN : EndApply(r, omit)
    \/ Tick

SpecEndRace == InitEndRace /\ [][NextEndRace]_vars

----------------------------------------------------------------------------
(* POST /send, requests in flight at the same time *)

\* the handler up to userMessage.save(): createdAt is the time of the call
SendReceive(r, user, body) ==
    /\ pc[r] = "idle"
    /\ req' = [req EXCEPT ![r] = [route |-> "send", user |-> user, body |-> body]]
    /\ IF ~Has(body, "message") \/ body.message = ""
          \/ ~Has(body, "sessionId") \/ body.sessionId = ""
       THEN /\ res' = [res EXCEPT ![r] = [kind |-> "send", status |-> 400]]
            /\ pc' = [pc EXCEPT ![r] = "done"]
            /\ UNCHANGED local
       ELSE LET b == SendDefaults(body)
                userMessage == [userId |-> user, sessionId |-> b.sessionId,
                                subject |-> b.subject, role |-> "user",
                                content |-> b.message,
                                messageType |-> b.messageType,
                                createdAt |-> now]
            IN  IF ValidMessage(userMessage)
                THEN /\ local' = [local EXCEPT ![r] = [userMessage |-> userMessage]]
                     /\ pc' = [pc EXCEPT ![r] = "send_save"]
                     /\ UNCHANGED res
                ELSE /\ res' = [res EXCEPT ![r] = [kind |-> "send", status |-> 500]]
                     /\ pc' = [pc EXCEPT ![r] = "done"]
                     /\ UNCHANGED local
    /\ UNCHANGED <<auth, db_sessions, db_messages, now, tz, sessions, chatMessages,
                   ended>>

\* the store inserts the user's message
SendInsert(r) ==
    /\ pc[r] = "send_save"
    /\ LET stored == NewChatMessage(Len(db_messages) + 1, local[r].userMessage)
       IN  /\ db_messages' = Append(db_messages, stored)
           /\ local' = [local EXCEPT ![r] = [userMessage |-> stored]]
    /\ pc' = [pc EXCEPT ![r] = "send_find"]
    /\ UNCHANGED <<auth, db_sessions, now, tz, req, sessions, chatMessages, res,
                   ended>>

\* the messages of a find, newest first, cut to ten
RecentMessages(user, sessionId) ==
    Take(SortByCreatedAtDesc(FindSessionMessages(user, sessionId)), ContextLimit)

\* the store answers the find; the handler reverses the result
SendContext(r) ==
    /\ pc[r] = "send_find"
    /\ LET recentMessages ==
               RecentMessages(req[r].user, local[r].userMessage.sessionId)
       IN  local' = [local EXCEPT ![r] =
                        local[r] @@ [recentMessages |-> recentMessages,
                                     conversationHistory |->
                                         [i \in DOMAIN recentMessages |->
                                             [role |-> Reverse(recentMessages)[i].role,
                                              content |->
                                                  Reverse(recentMessages)[i].content]]]]
    /\ pc' = [pc EXCEPT ![r] = "send_ai"]
    /\ UNCHANGED <<auth, db_sessions, db_messages, now, tz, req, sessions,
                   chatMessages, res, ended>>

\* the AI service answers or rejects; the reply is built for saving
SendAnswer(r, outcome) ==
    /\ pc[r] = "send_ai"
    /\ LET um == local[r].userMessage
           aiMessage == [userId |-> req[r].user, sessionId |-> um.sessionId,
                         subject |-> um.subject, role |-> "assistant",
                         content |-> outcome[1], messageType |-> "explanation",
                         createdAt |-> now]
       IN  IF outcome = <<>> \/ ~ValidMessage(aiMessage)
           THEN /\ res' = [res EXCEPT ![r] = [kind |-> "send", status |-> 500]]
                /\ pc' = [pc EXCEPT ![r] = "done"]
                /\ UNCHANGED local
           ELSE /\ local' = [local EXCEPT ![r] =
                                 local[r] @@ [aiResponse |-> outcome[1],
                                              aiMessage |-> aiMessage]]
                /\ pc' = [pc EXCEPT ![r] = "send_save_reply"]
                /\ UNCHANGED res
    /\ UNCHANGED <<auth, db_sessions, db_messages, now, tz, req, sessions,
                   chatMessages, ended>>

\* the store inserts the reply and the handler answers
SendInsertReply(r) ==
    /\ pc[r] = "send_save_reply"
    /\ db_messages' = Append(db_messages,
                             NewChatMessage(Len(db_messages) + 1, local[r].aiMessage))
    /\ res' = [res EXCEPT ![r] = [kind |-> "send", status |-> 200,
                                  message |-> local[r].aiResponse,
                                  sessionId |-> local[r].userMessage.sessionId]]
    /\ pc' = [pc EXCEPT ![r] = "done"]
    /\ UNCHANGED <<auth, db_sessions, now, tz, req, sessions, chatMessages, local,
                   ended>>

RaceSendBodies ==
    {[message |-> "hi", sessionId |-> "s1"],
     [message |-> "why", sessionId |-> "s1"],
     [message |-> "hi", sessionId |-> "s2"],
     [message |-> "hi"]}

InitSendRace ==
    /\ now = StatsNow
    /\ tz = UTC
    /\ NoAuth
    /\ db_sessions = <<>>
    /\ db_messages \in {WithIds(m) : m \in StoredMessages}
    /\ IdleAll
    /\ ended = {}

NextSendRace ==
    \/ \E r \in InFlight, user \in Users, body \in RaceSendBodies :
          SendReceive(r, user, body)
    \/ \E r \in InFlight : SendInsert(r)
    \/ \E r \in InFlight : SendContext(r)
    \/ \E r \in InFlight, outcome \in AiOutcomes : SendAnswer(r, outcome)
    \/ \E r \in InFlight : SendInsertReply(r)
    \/ Tick

SpecSendRace == InitSendRace /\ [][NextSendRace]_vars

----------------------------------------------------------------------------
(* POST /register, requests in flight at the same time *)

MinPasswordLength == 6

\* the defaults the handler gives the optional fields
NewUser(id, body) ==
    [_id |-> id, username |-> body.username, email |-> body.email,
     password |-> body.password,
     year |-> IF Has(body, "year") THEN body.year ELSE "2nd",
     subjects |-> IF Has(body, "subjects") THEN body.subjects ELSE <<>>,
     learningStyle |-> IF Has(body, "learningStyle") THEN body.learningStyle
                       ELSE "visual"]

\* User.findOne({ $or: [{ email }, { username }] }) finds a user
SameUser(u, body) == u.email = body.email \/ u.username = body.username

ExistingUser(body) == \E i \in DOMAIN db_users : SameUser(db_users[i], body)

\* the user object of a 201 or 200 response
UserView(u) ==
    [id |-> u._id, username |-> u.username, email |-> u.email, year |-> u.year,
     subjects |-> u.subjects, learningStyle |-> u.learningStyle]

\* the handler up to its first await: the two validations
RegisterReceive(r, body) ==
    /\ pc[r] = "idle"
    /\ req' = [req EXCEPT ![r] = [route |-> "register", body |-> body]]
    /\ IF ~Has(body, "username") \/ body.username = ""
          \/ ~Has(body, "email") \/ body.email = ""
          \/ ~Has(body, "password") \/ body.password = <<>>
       THEN /\ res' = [res EXCEPT ![r] = [kind |-> "register", status |-> 400]]
            /\ pc' = [pc EXCEPT ![r] = "done"]
       ELSE IF Len(body.password) < MinPasswordLength
       THEN /\ res' = [res EXCEPT ![r] = [kind |-> "register", status |-> 400]]
            /\ pc' = [pc EXCEPT ![r] = "done"]
       ELSE /\ pc' = [pc EXCEPT ![r] = "register_find"]
            /\ UNCHANGED res
    /\ UNCHANGED <<db_users, store, calls, db_sessions, db_messages, now, tz,
                   sessions, chatMessages, local, ended>>

\* the store answers the existence check
RegisterFind(r) ==
    /\ pc[r] = "register_find"
    /\ IF ExistingUser(req[r].body)
       THEN /\ res' = [res EXCEPT ![r] = [kind |-> "register", status |-> 400]]
            /\ pc' = [pc EXCEPT ![r] = "done"]
       ELSE /\ pc' = [pc EXCEPT ![r] = "register_save"]
            /\ UNCHANGED res
    /\ UNCHANGED <<db_users, store, calls, db_sessions, db_messages, now, tz, req,
                   sessions, chatMessages, local, ended>>

\* the store applies user.save() and the handler answers. The User schema is
\* not among the sources: with unique indexes on email and username a
\* duplicate is rejected (the catch answers 500), without them it is stored
RegisterSave(r, unique) ==
    /\ pc[r] = "register_save"
    /\ pc' = [pc EXCEPT ![r] = "done"]
    /\ IF unique /\ ExistingUser(req[r].body)
       THEN /\ res' = [res EXCEPT ![r] = [kind |-> "register", status |-> 500]]
            /\ UNCHANGED db_users
       ELSE LET user == NewUser(Len(db_users) + 1, req[r].body)
            IN  /\ db_users' = Append(db_users, user)
                /\ res' = [res EXCEPT ![r] = [kind |-> "register", status |-> 201,
                                              token |-> user._id,
                                              user |-> UserView(user)]]
    /\ UNCHANGED <<store, calls, db_sessions, db_messages, now, tz, req, sessions,
                   chatMessages, local, ended>>

Usernames == {"alice", "bob"}
Emails == {"a@x.org", "b@x.org"}
Passwords == {<<"a", "b", "c">>, <<"s", "e", "c", "r", "e", "t">>}

RegisterBodies ==
    {[username |-> n, email |-> e, password |-> p] :
        n \in Usernames, e \in Emails, p \in Passwords}
    \cup {[email |-> "a@x.org", password |-> <<"s", "e", "c", "r", "e", "t">>],
          [username |-> "bob", email |-> "b@x.org",
           password |-> <<"s", "e", "c", "r", "e", "t">>, year |-> "3rd"]}

StoredUsers ==
    {<<>>,
     <<NewUser(1, [username |-> "alice", email |-> "a@x.org",
                   password |-> <<"s", "e", "c", "r", "e", "t">>])>>}

InitRegister ==
    /\ now = StatsNow
    /\ tz = UTC
    /\ db_users \in StoredUsers
    /\ store = InitialStore
    /\ calls = <<>>
    /\ db_sessions = <<>>
    /\ db_messages = <<>>
    /\ IdleAll
    /\ ended = {}

NextRegister ==
    \/ \E r \in InFlight, body \in RegisterBodies : RegisterReceive(r, body)
    \/ \E r \in InFlight : RegisterFind(r)
    \/ \E r \in InFlight, unique \in BOOLEAN : RegisterSave(r, unique)

SpecRegister == InitRegister /\ [][NextRegister]_vars

----------------------------------------------------------------------------
(* The frontend auth store (useAuthStore): set() merges the given keys into
   the state; an asynchronous action runs up to its await, the response
   arrives in a later step *)

Set(state, partial) == partial @@ state

NoCall == [op |-> "none", pc |-> "none"]

Pending(op) == [op |-> op, pc |-> "pending"]

Returned(op, success) ==
    [op |-> op, pc |-> "returned", returned |-> [success |-> success]]

\* a call slot is free before its first call and after a call has returned
Free(c) == calls[c].pc # "pending"

\* login, register and updateProfile up to the await
Call(c, op) ==
    /\ Free(c)
    /\ store' = Set(store, [isLoading |-> TRUE, error |-> <<>>])
    /\ calls' = [calls EXCEPT ![c] = Pending(op)]
    /\ UNCHANGED <<db_users, db_sessions, db_messages, now, tz, req, sessions,
                   chatMessages, res, pc, local, ended>>

\* error.response?.data?.message || fallback
ErrorMessage(response, fallback) ==
    IF response.message # <<>> THEN response.message ELSE <<fallback>>

\* a logout that leaves the flag alone
Logout_keepsFlag ==
    /\ store' = Set(store, [user |-> <<>>, token |-> <<>>, error |-> <<>>])
    /\ UNCHANGED <<db_users, calls, db_sessions, db_messages, now, tz, req,
                   sessions, chatMessages, res, pc, local, ended>>

Logout ==
    /\ store' = Set(store, [user |-> <<>>, token |-> <<>>,
                            isAuthenticated |-> FALSE, error |-> <<>>])
    /\ UNCHANGED <<db_users, calls, db_sessions, db_messages, now, tz, req,
                   sessions, chatMessages, res, pc, local, ended>>

\* the response of a login or register call arrives
SignInDone(c, response) ==
    /\ calls[c].pc = "pending"
    /\ calls[c].op \in {"login", "register"}
    /\ IF response.ok
       THEN store' = Set(store, [user |-> response.user, token |-> response.token,
                                 isAuthenticated |-> TRUE, isLoading |-> FALSE,
                                 error |-> <<>>])
       ELSE store' = Set(store,
                         [isLoading |-> FALSE,
                          error |-> ErrorMessage(response,
                                       IF calls[c].op = "login" THEN "Login failed"
                                       ELSE "Registration failed"),
                          isAuthenticated |-> FALSE])
    /\ calls' = [calls EXCEPT ![c] = Returned(calls[c].op, response.ok)]
    /\ UNCHANGED <<db_users, db_sessions, db_messages, now, tz, req, sessions,
                   chatMessages, res, pc, local, ended>>

\* the response of an updateProfile call arrives
UpdateProfileDone(c, response) ==
    /\ calls[c].pc = "pending"
    /\ calls[c].op = "updateProfile"
    /\ IF response.ok
       THEN store' = Set(store, [user |-> response.user, isLoading |-> FALSE,
                                 error |-> <<>>])
       ELSE store' = Set(store,
                         [isLoading |-> FALSE,
                          error |-> ErrorMessage(response, "Profile update failed")])
    /\ calls' = [calls EXCEPT ![c] = Returned("updateProfile", response.ok)]
    /\ UNCHANGED <<db_users, db_sessions, db_messages, now, tz, req, sessions,
                   chatMessages, res, pc, local, ended>>

ClearError ==
    /\ store' = Set(store, [error |-> <<>>])
    /\ UNCHANGED <<db_users, calls, db_sessions, db_messages, now, tz, req,
                   sessions, chatMessages, res, pc, local, ended>>

\* a page load: persist restores user, token and isAuthenticated, the rest is
\* as created and the calls in flight are gone
Reload ==
    /\ store' = Set(InitialStore, [user |-> store.user, token |-> store.token,
                                   isAuthenticated |-> store.isAuthenticated])
    /\ calls' = [c \in DOMAIN calls |-> NoCall]
    /\ UNCHANGED <<db_users, db_sessions, db_messages, now, tz, req, sessions,
                   chatMessages, res, pc, local, ended>>

\* the user objects and tokens the server answers with
Profiles ==
    {UserView(NewUser(1, [username |-> "alice", email |-> "a@x.org",
                          password |-> <<>>])),
     UserView(NewUser(2, [username |-> "bob", email |-> "b@x.org",
                          password |-> <<>>, year |-> "3rd"]))}

Tokens == {"t1", "t2"}

Failures ==
    {[ok |-> FALSE, message |-> m] : m \in Optional({"Invalid email or password"})}

SignInResponses ==
    {[ok |-> TRUE, token |-> <<t>>, user |-> <<u>>] : t \in Tokens, u \in Profiles}
    \cup Failures

ProfileResponses == {[ok |-> TRUE, user |-> <<u>>] : u \in Profiles} \cup Failures

AsyncOps == {"login", "register", "updateProfile"}

InitStore ==
    /\ now = StatsNow
    /\ tz = UTC
    /\ db_users = <<>>
    /\ store = InitialStore
    /\ calls = [c \in InFlight |-> NoCall]
    /\ db_sessions = <<>>
    /\ db_messages = <<>>
    /\ Idle
    /\ ended = {}

NextStore ==
    \/ \E c \in InFlight, op \in AsyncOps : Call(c, op)
    \/ \E c \in InFlight, response \in SignInResponses : SignInDone(c, response)
    \/ \E c \in InFlight, response \in ProfileResponses :
          UpdateProfileDone(c, response)
    \/ Logout
    \/ ClearError
    \/ Reload

SpecStore == InitStore /\ [][NextStore]_vars

----------------------------------------------------------------------------
(* Requests to every route, over both stores *)

InitAll ==
    /\ now = StatsNow
    /\ tz = UTC
    /\ NoAuth
    /\ db_sessions \in {WithIds(s) : s \in ApiSessions}
    /\ db_messages \in {WithIds(m) : m \in StoredMessages}
    /\ Idle
    /\ ended = {}

\* the requests of this specification: every route, with fewer bodies for the
\* two routes that write; the clock stands still here, the property checked
\* under this specification reads no time
AllEndBodies == {NoLocal}

AllSendBodies == {body \in SendBodies : ~Has(body, "subject")}

NextAll ==
    \/ \E user \in Users, body \in StartBodies : StartSession(user, body)
    \/ StartSave
    \/ \E user \in Users, sessionId \in SessionIds, body \in AllEndBodies,
          omit \in BOOLEAN : EndSession(user, sessionId, body, omit)
    \/ \E user \in Users, period \in Periods : GetStats(user, period)
    \/ \E user \in Users, subject \in RequestSubjects, limit \in Limits :
          GetSubject(user, subject, limit)
    \/ \E user \in Users, sessionId \in ChatSessionIds, page \in Pages,
          limit \in HistoryLimits : GetHistory(user, sessionId, page, limit)
    \/ \E user \in Users, body \in AllSendBodies : SendMessage(user, body)
    \/ SendFind
    \/ \E outcome \in AiOutcomes : SendAI(outcome)
    \/ SendSaveReply
    \/ \E user \in Users, body \in FeedbackBodies, omit \in BOOLEAN :
          Feedback(user, body, omit)
    \/ Finish

SpecAll == InitAll /\ [][NextAll]_vars

----------------------------------------------------------------------------
(* Properties of the statistics response *)

RECURSIVE SumFn(_)
\* the sum of the values of a function with a finite domain
SumFn(fn) ==
    IF DOMAIN fn = {} THEN 0
    ELSE LET x == CHOOSE y \in DOMAIN fn : TRUE
         IN  fn[x] + SumFn([y \in DOMAIN fn \ {x} |-> fn[y]])

StatsSent == res.kind = "stats"

\* the sessions and messages the handler fetched for the window
Fetched == Range(sessions)
FetchedMessages == Range(chatMessages)

DurationOf(s) == IF Has(s, "duration") THEN s.duration ELSE 0

\* C1: the statistics result's totalStudyTime is the sum of duration over all
\* fetched sessions, a session with no duration contributing 0.
C1_TotalStudyTime ==
    StatsSent => res.totalStudyTime = SumFn([s \in Fetched |-> DurationOf(s)])

C1_Witness ==
    /\ StatsSent
    /\ Cardinality(Fetched) >= 2
    /\ \E s \in Fetched : ~Has(s, "duration")
    /\ res.totalStudyTime > 0

Rated(subject) == {s \in Fetched : s.subject = subject /\ Has(s, "rating")}

MeanRating(subject) ==
    IF Rated(subject) = {} THEN Num(0)
    ELSE Div(SumFn([s \in Rated(subject) |-> s.rating]), Cardinality(Rated(subject)))

\* C2: for each subject in subjectStats, averageRating is the mean of the ratings
\* of that subject's rated sessions (unrated sessions are in neither the sum nor
\* the count), and 0 when none of them is rated.
C2_MeanOfRated ==
    StatsSent =>
        \A i \in DOMAIN res.subjectStats :
            res.subjectStats[i].averageRating = MeanRating(res.subjectStats[i].subject)

\* C3 as stated: averageSessionLength is totalStudyTime / totalSessions when
\* totalSessions > 0, and 0 when there are no sessions.
C3_ExactQuotient ==
    StatsSent =>
        res.averageSessionLength =
            IF res.totalSessions > 0
            THEN Div(res.totalStudyTime, res.totalSessions)
            ELSE Num(0)

\* C3 as amended: averageSessionLength is the integer nearest to
\* totalStudyTime / totalSessions, a half rounding up, when totalSessions > 0,
\* and 0 when there are no sessions.
C3_RoundedQuotient ==
    StatsSent =>
        /\ res.averageSessionLength.d = 1
        /\ LET r == res.averageSessionLength.n
               t == res.totalStudyTime
               k == res.totalSessions
           IN  IF k > 0
               THEN 2 * r * k - k <= 2 * t /\ 2 * t < 2 * r * k + k
               ELSE r = 0

C3_Witness ==
    /\ StatsSent
    /\ res.totalSessions = 2
    /\ res.totalStudyTime = 45
    /\ res.averageSessionLength = Num(23)

\* C4: computing the statistics leaves the fetched session collection and the
\* fetched chat-message collection as they were: same elements, same order,
\* same field values.
C4_InputsNotMutated ==
    StatsSent =>
        /\ sessions = FindSessions(req.user, StartDate(req.period))
        /\ chatMessages = FindMessages(req.user, StartDate(req.period))

\* C5: totalQuestions is the number of fetched chat messages whose role is
\* user; assistant messages are never counted.
C5_TotalQuestions ==
    StatsSent =>
        res.totalQuestions = Cardinality({m \in FetchedMessages : m.role = "user"})

C5_Witness ==
    /\ StatsSent
    /\ res.totalQuestions = 2
    /\ \E m \in FetchedMessages : m.role = "assistant"

SubjectsOf(S) == {s.subject : s \in S}
OfSubject(subject) == {s \in Fetched : s.subject = subject}

\* C6: subjectsStudied is the number of distinct subjects among the sessions;
\* subjectStats has exactly one entry per distinct subject, whose sessions and
\* totalTime are the count and the duration sum of the sessions with that
\* subject; the counts add up to totalSessions, the times to totalStudyTime.
C6_SubjectBreakdown ==
    StatsSent =>
        LET st == res.subjectStats IN
        /\ res.subjectsStudied = Cardinality(SubjectsOf(Fetched))
        /\ Len(st) = Cardinality(SubjectsOf(Fetched))
        /\ {st[i].subject : i \in DOMAIN st} = SubjectsOf(Fetched)
        /\ \A i \in DOMAIN st :
              /\ st[i].sessions = Cardinality(OfSubject(st[i].subject))
              /\ st[i].totalTime =
                    SumFn([s \in OfSubject(st[i].subject) |-> DurationOf(s)])
        /\ SumFn([i \in DOMAIN st |-> st[i].sessions]) = res.totalSessions
        /\ SumFn([i \in DOMAIN st |-> st[i].totalTime]) = res.totalStudyTime

C6_Witness ==
    /\ StatsSent
    /\ res.subjectsStudied = 2
    /\ res.totalStudyTime = 45

Min(a, b) == IF a < b THEN a ELSE b

\* the sessions as fetched, before the handler touches them
FetchedArray == FindSessions(req.user, StartDate(req.period))

\* C7: recentSessions holds min(5, n) of the n fetched sessions, those with the
\* greatest createdAt, in descending createdAt order, none twice and none
\* that was not fetched.
C7_RecentSessions ==
    StatsSent =>
        LET r == res.recentSessions
            in == Range(FetchedArray)
        IN  /\ Len(r) = Min(RecentLimit, Len(FetchedArray))
            /\ \A i, j \in DOMAIN r : i < j => r[i].createdAt >= r[j].createdAt
            /\ \A i, j \in DOMAIN r : i # j => r[i]._id # r[j]._id
            /\ Range(r) \subseteq in
            /\ \A s \in in \ Range(r), t \in Range(r) : s.createdAt <= t.createdAt

C7_Witness ==
    /\ StatsSent
    /\ Len(FetchedArray) > RecentLimit
    /\ Len(res.recentSessions) = RecentLimit
    /\ FetchedArray[1].createdAt < FetchedArray[Len(FetchedArray)].createdAt
    /\ \E s \in Range(FetchedArray) \ Range(res.recentSessions) :
          s.createdAt < res.recentSessions[RecentLimit].createdAt

\* C8: no division by zero reaches the output: averageSessionLength and every
\* averageRating, of the statistics and of the subject progress, is a number,
\* never NaN, and 0 where the divisor is 0; the response is no error.
C8_NoNaN ==
    /\ StatsSent =>
          /\ res.status = 200
          /\ ~IsNaN(res.averageSessionLength)
          /\ res.totalSessions = 0 => res.averageSessionLength = Num(0)
          /\ \A i \in DOMAIN res.subjectStats :
                /\ ~IsNaN(res.subjectStats[i].averageRating)
                /\ res.subjectStats[i].sessions > 0
    /\ res.kind = "subject" =>
          /\ res.status = 200
          /\ ~IsNaN(res.averageRating)
          /\ res.totalSessions = 0 => res.averageRating = Num(0)

C8_Witness ==
    /\ res.kind = "subject"
    /\ res.totalSessions = 0
    /\ db_sessions # <<>>
    /\ res.averageRating = Num(0)

\* C9: with no fetched session and no fetched chat message the statistics are
\* all 0 and subjectStats and recentSessions are empty.
C9_EmptyInput ==
    (StatsSent /\ FetchedArray = <<>>
        /\ FindMessages(req.user, StartDate(req.period)) = <<>>) =>
        /\ res.totalStudyTime = 0
        /\ res.totalSessions = 0
        /\ res.totalQuestions = 0
        /\ res.subjectsStudied = 0
        /\ res.averageSessionLength = Num(0)
        /\ res.subjectStats = <<>>
        /\ res.recentSessions = <<>>

C9_Witness ==
    /\ StatsSent
    /\ FetchedArray = <<>>
    /\ FindMessages(req.user, StartDate(req.period)) = <<>>
    /\ res.totalSessions = 0
    /\ res.averageSessionLength = Num(0)

\* C10: getWeeklyActivity returns exactly 7 buckets, which stand for 7 distinct
\* consecutive days of the server's local civil calendar in ascending order,
\* the last one the day that contains now.
C10_SevenConsecutiveDays ==
    res.kind = "weekly" =>
        /\ Len(res.weeklyActivity) = WeekDays
        /\ \A k \in 1..WeekDays :
              LocalDay(DayStart(k)) = LocalDay(now) - (WeekDays - k)

----------------------------------------------------------------------------
(* Properties of the weekly buckets *)

WeeklySent == res.kind = "weekly"

\* the local civil day the k-th bucket stands for
BucketDay(k) == LocalDay(DayStart(k))

\* the sessions created on local civil day D, from its midnight (inclusive) to
\* the next local midnight (exclusive)
CreatedOn(D) ==
    {s \in Range(sessions) :
        LocalMidnight(D) <= s.createdAt /\ s.createdAt < LocalMidnight(D + 1)}

\* C11: each bucket's sessions is the number of input sessions created within
\* the bucket's local calendar day, from 00:00 inclusive to the next local
\* midnight exclusive, and its time is the sum of their durations, a missing
\* duration counting 0.
C11_BucketCounts ==
    WeeklySent =>
        \A k \in DOMAIN res.weeklyActivity :
            /\ res.weeklyActivity[k].sessions = Cardinality(CreatedOn(BucketDay(k)))
            /\ res.weeklyActivity[k].time =
                  SumFn([s \in CreatedOn(BucketDay(k)) |-> DurationOf(s)])

\* C12: each bucket's date is the date of the local calendar day whose
\* boundaries the bucket uses, for every local UTC offset; the last bucket's
\* date is today's local date.
C12_DateIsLocalDay ==
    WeeklySent =>
        /\ \A k \in DOMAIN res.weeklyActivity :
              res.weeklyActivity[k].date = BucketDay(k)
        /\ res.weeklyActivity[WeekDays].date = LocalDay(now)

\* the 7 local calendar days from six days ago through today
InWeek(s) ==
    /\ LocalMidnight(LocalDay(now) - (WeekDays - 1)) <= s.createdAt
    /\ s.createdAt < LocalMidnight(LocalDay(now) + 1)

\* the buckets that count the session s
CountedIn(s) ==
    {k \in 1..WeekDays : \E i \in DOMAIN DaySessions(sessions, k) :
                            DaySessions(sessions, k)[i]._id = s._id}

\* C13: a session created outside the 7 local calendar days from six days ago
\* through today is counted in no bucket, one created inside them in exactly
\* one bucket.
C13_CountedOnce ==
    WeeklySent =>
        /\ \A s \in Range(sessions) :
              Cardinality(CountedIn(s)) = IF InWeek(s) THEN 1 ELSE 0
        /\ SumFn([k \in DOMAIN res.weeklyActivity |-> res.weeklyActivity[k].sessions])
              = Cardinality({s \in Range(sessions) : InWeek(s)})

----------------------------------------------------------------------------
(* Properties of the stored study sessions *)

StoredSessions == Range(db_sessions)

\* the fields an end request writes
EndFields == {"duration", "rating", "notes", "conceptsLearned", "endTime"}

Restrict(doc, F) == [f \in F \cap DOMAIN doc |-> doc[f]]

\* C14: each study session is modified by at most one end request: once a
\* session has been ended, a further end request does not change its duration,
\* rating, notes, conceptsLearned or endTime.
C14_EndedOnce ==
    [][\A i \in DOMAIN db_sessions :
          db_sessions[i]._id \in ended =>
              Restrict(db_sessions'[i], EndFields) = Restrict(db_sessions[i], EndFields)]_vars

\* the document a start request has built and is about to save
StartedSessions == IF pc = "start_save" THEN {local.session} ELSE {}

\* C15: completed is true exactly for the sessions that have been ended: false
\* from the session's creation by a start request until an end request is
\* applied to it, true from then on.
C15_CompletedIffEnded ==
    /\ \A d \in StartedSessions : d.completed <=> d._id \in ended
    /\ \A d \in StoredSessions : d._id \in ended => d.completed

\* C16: every stored session satisfies the field constraints, whatever the
\* requests carried: duration is unset (only before the session ends) or a
\* non-negative integer, rating is unset or an integer from 1 to 5.
C16_FieldConstraints ==
    \A d \in StoredSessions :
        /\ IF Has(d, "duration") THEN d.duration >= 0 ELSE d._id \notin ended
        /\ Has(d, "rating") => d.rating \in MinRating..MaxRating

\* C17: every session has endTime >= startTime: they are equal at creation and
\* endTime is only replaced by the time of an end request.
C17_EndNotBeforeStart ==
    \A d \in StoredSessions \cup StartedSessions : d.endTime >= d.startTime

C17_Witness ==
    \E d \in StoredSessions :
        /\ d._id \in ended
        /\ d.endTime > d.startTime
        /\ d.endTime = now

\* C18: no operation changes the userId of an existing study session.
C18_OwnerNeverChanges ==
    [][\A i \in DOMAIN db_sessions :
          /\ i \in DOMAIN db_sessions'
          /\ db_sessions'[i]._id = db_sessions[i]._id
          /\ db_sessions'[i].userId = db_sessions[i].userId]_vars

\* an end request of another user for a stored session, after an end request
\* of the owner
C18_Witness ==
    /\ ended # {}
    /\ res.kind = "end" /\ res.status = 404
    /\ \E d \in StoredSessions : d._id = req.sessionId /\ d.userId # req.user

----------------------------------------------------------------------------
(* Properties of the stored records *)

SessionIdsOf(s) == {s[i]._id : i \in DOMAIN s}

\* C19: no request removes a stored study session or a stored chat message:
\* the set of stored session ids and the set of stored message ids only grow.
C19_NothingRemoved ==
    [][/\ SessionIdsOf(db_sessions) \subseteq SessionIdsOf(db_sessions')
       /\ SessionIdsOf(db_messages) \subseteq SessionIdsOf(db_messages')]_vars

\* an end request and a feedback request have been applied and a chat turn has
\* stored its two records
C19_Witness ==
    /\ ended # {}
    /\ \E i \in DOMAIN db_messages : Has(db_messages[i], "isHelpful")
    /\ res.kind = "send" /\ res.status = 200

\* a send request has answered after storing the user's message
SendStored == res.kind = "send" /\ Has(local, "userMessage")

\* C20: every chat turn adds exactly two records carrying the caller's userId
\* and the request's sessionId and subject, one of role user with the sent text
\* and one of role assistant with the reply, the user record created no later
\* than the assistant record; no send request leaves a user record without its
\* assistant record.
C20_TwoRecordsPerTurn ==
    SendStored =>
        LET um == local.userMessage
            b == SendDefaults(req.body)
        IN  /\ Len(db_messages) = um._id + 1
            /\ \A i \in {um._id, um._id + 1} :
                  /\ db_messages[i].userId = req.user
                  /\ db_messages[i].sessionId = b.sessionId
                  /\ db_messages[i].subject = b.subject
            /\ db_messages[um._id].role = "user"
            /\ db_messages[um._id].content = b.message
            /\ db_messages[um._id + 1].role = "assistant"
            /\ db_messages[um._id + 1].content = local.aiResponse
            /\ db_messages[um._id].createdAt <= db_messages[um._id + 1].createdAt

\* the fields a feedback request writes
FeedbackFields == {"isHelpful", "feedback"}

\* C21: userId, sessionId, subject, role and content of a stored chat message
\* never change; a message is modified only by a feedback request of its owner
\* naming it, and only in isHelpful and feedback; a feedback request without
\* message id, for an unknown id or for another user's message changes nothing.
C21_OnlyFeedbackChanges ==
    [][\A i \in DOMAIN db_messages :
          /\ i \in DOMAIN db_messages'
          /\ Without(db_messages'[i], FeedbackFields)
                 = Without(db_messages[i], FeedbackFields)
          /\ db_messages'[i] # db_messages[i] =>
                 /\ req'.route = "feedback"
                 /\ req'.user = db_messages[i].userId
                 /\ Has(req'.body, "messageId")
                 /\ req'.body.messageId = db_messages[i]._id]_vars

\* a feedback has been recorded on the caller's message, which another user's
\* feedback request then left alone
C21_Witness ==
    /\ res.kind = "feedback" /\ res.status = 404
    /\ Has(req.body, "messageId")
    /\ \E i \in DOMAIN db_messages :
          /\ db_messages[i]._id = req.body.messageId
          /\ db_messages[i].userId # req.user
          /\ Has(db_messages[i], "feedback")

----------------------------------------------------------------------------
(* Properties of the chat history *)

HistorySent == res.kind = "history"

\* C22: the chat-history request for a sessionId returns only messages of the
\* calling user with that sessionId, in non-decreasing createdAt order.
C22_HistoryOwnedAndOrdered ==
    HistorySent =>
        /\ \A i \in DOMAIN res.messages :
              /\ res.messages[i].userId = req.user
              /\ res.messages[i].sessionId = req.sessionId
        /\ \A i, j \in DOMAIN res.messages :
              i < j => res.messages[i].createdAt <= res.messages[j].createdAt

\* a history of several messages, stored in another order and next to a message
\* of another user or of another session
C22_Witness ==
    /\ HistorySent
    /\ Len(res.messages) >= 2
    /\ res.messages[1]._id > res.messages[2]._id
    /\ \E i \in DOMAIN db_messages :
          \/ db_messages[i].userId # req.user
          \/ db_messages[i].sessionId # req.sessionId

----------------------------------------------------------------------------
(* Properties of the session requests *)

\* a start request with a subject of the enumeration and a non-empty topic
\* has been answered
StartAnswered ==
    /\ res.kind = "start"
    /\ Has(req.body, "subject") /\ req.body.subject \in MessageSubjectEnum
    /\ Has(req.body, "topic") /\ req.body.topic # ""

\* C23: a start request with a subject of the enumeration (General included)
\* and a non-empty topic stores exactly one new session owned by the caller,
\* with that subject and topic and no duration, and answers 201 with its id.
C23_StartStoresSession ==
    StartAnswered =>
        /\ res.status = 201
        /\ Len(db_sessions) = local.session._id
        /\ LET stored == db_sessions[Len(db_sessions)]
           IN  /\ stored._id = res.session.id
               /\ stored.userId = req.user
               /\ stored.subject = req.body.subject
               /\ stored.topic = req.body.topic
               /\ ~Has(stored, "duration")

\* a step that serves an end request
EndStep == req.route = "none" /\ req'.route = "end"

\* no stored session has the requested id and the caller as owner
NoSessionOfCaller ==
    ~\E d \in StoredSessions : d._id = req'.sessionId /\ d.userId = req'.user

----------------------------------------------------------------------------
(* Properties of requests in flight at the same time *)

\* both requests are end requests of the owner for the same stored session
\* and both have been answered
BothEnded(i) ==
    \A r \in InFlight :
        /\ pc[r] = "done"
        /\ req[r].route = "end"
        /\ req[r].sessionId = db_sessions[i]._id
        /\ req[r].user = db_sessions[i].userId

\* C25: after two end requests for the same session processed concurrently the
\* stored session carries duration, conceptsLearned, notes, rating and endTime
\* of exactly one of the two requests, never a mixture.
C25_LastWriteWins ==
    \A i \in DOMAIN db_sessions :
        BothEnded(i) =>
            \E r \in InFlight :
                Restrict(db_sessions[i], EndFields)
                    = Restrict(local[r].update, EndFields)

----------------------------------------------------------------------------
(* Properties of the per-subject question counts *)

\* the questions asked on a subject: the fetched messages of role user
QuestionsOn(subject) ==
    {m \in FetchedMessages : m.subject = subject /\ m.role = "user"}

\* C26: for each subject in subjectStats, questions is the number of chat
\* messages in the window with that subject and role user, so the per-subject
\* counts never add up to more than totalQuestions.
C26_SubjectQuestions ==
    StatsSent =>
        LET st == res.subjectStats IN
        /\ \A i \in DOMAIN st :
              st[i].questions = Cardinality(QuestionsOn(st[i].subject))
        /\ SumFn([i \in DOMAIN st |-> st[i].questions]) <= res.totalQuestions

----------------------------------------------------------------------------
(* Properties of the send request *)

\* a step that receives a send request
SendStep == req.route = "none" /\ req'.route = "send"

LastMessage == db_messages[Len(db_messages)]

\* C27: the user's message is stored before the AI service is called; when
\* the AI call or the saving of the reply fails the request answers 500, the
\* user's message stays stored and no assistant message is stored for the
\* turn; a send request without message or sessionId answers 400 and stores
\* nothing.
C27_UserMessageFirst ==
    [][/\ pc = "send_ai" =>
             /\ db_messages # <<>>
             /\ LastMessage = local.userMessage
             /\ LastMessage.role = "user"
       /\ (pc \in {"send_ai", "send_save_reply"} /\ pc' = "idle"
              /\ res'.status # 200) =>
             /\ res'.status = 500
             /\ db_messages' = db_messages
             /\ LastMessage = local.userMessage
       /\ (SendStep /\ (~Has(req'.body, "message") \/ req'.body.message = ""
                         \/ ~Has(req'.body, "sessionId")
                         \/ req'.body.sessionId = "")) =>
             /\ res'.status = 400
             /\ db_messages' = db_messages]_vars

\* the AI service answered and the saving of the reply failed: the request
\* answered 500 and the user's message is the last one stored
C27_Witness ==
    /\ res.kind = "send" /\ res.status = 500
    /\ Has(local, "aiResponse")
    /\ LastMessage = local.userMessage

----------------------------------------------------------------------------
(* Properties of the stored users *)

\* a stored user that request r did not create has the email or the username
\* of request r
MatchesOther(r) ==
    /\ Has(req[r].body, "email") /\ Has(req[r].body, "username")
    /\ \E i \in DOMAIN db_users :
          /\ SameUser(db_users[i], req[r].body)
          /\ ~(res[r].status = 201 /\ res[r].user.id = db_users[i]._id)

\* C28: no two stored users share an email or a username, and a register
\* request whose email or username matches an existing user answers 400 and
\* creates no user, also when two such requests are processed concurrently.
C28_UniqueUsers ==
    /\ \A i, j \in DOMAIN db_users :
          i # j => /\ db_users[i].email # db_users[j].email
                   /\ db_users[i].username # db_users[j].username
    /\ \A r \in InFlight :
          (pc[r] = "done" /\ MatchesOther(r)) => res[r].status = 400

----------------------------------------------------------------------------
(* Properties of the conversation passed to the AI service *)

\* request r has read its context; the conversation is role and content of
\* the messages found, oldest first
HasContext(r) == req[r].route = "send" /\ Has(local[r], "conversationHistory")

\* C29: the conversation a send request passes to the AI service consists of
\* at most the 10 most recently created stored messages of the caller's
\* session, in ascending createdAt order, and its last element is the user
\* message this request has just stored, also with several send requests for
\* the same session in flight.
C29_ContextEndsWithOwnMessage ==
    \A r \in InFlight :
        HasContext(r) =>
            LET h == Reverse(local[r].recentMessages)
                um == local[r].userMessage
            IN  /\ Len(local[r].conversationHistory) = Len(h)
                /\ Len(h) <= ContextLimit
                /\ \A i \in DOMAIN h :
                      /\ h[i].userId = req[r].user
                      /\ h[i].sessionId = um.sessionId
                /\ \A i, j \in DOMAIN h : i < j => h[i].createdAt <= h[j].createdAt
                /\ h # <<>>
                /\ h[Len(h)] = um

----------------------------------------------------------------------------
(* Properties of the frontend auth store *)

SignedIn == store.user # <<>> /\ store.token # <<>>

\* a login or register call returns in this step
SignInReturns(c) ==
    /\ calls[c].pc = "pending"
    /\ calls[c].op \in {"login", "register"}
    /\ calls'[c].pc = "returned"

\* C30: under any interleaving of login, register, logout and updateProfile
\* calls and of their completions, isAuthenticated is true only while token and
\* user are both non-null; a successful login or register sets all three
\* together and a failed one leaves isAuthenticated false.
C30_AuthenticatedHasUserAndToken ==
    [][/\ store.isAuthenticated => SignedIn
       /\ store'.isAuthenticated => SignedIn'
       /\ \A c \in InFlight :
             SignInReturns(c) =>
                 IF calls'[c].returned.success
                 THEN store'.isAuthenticated /\ SignedIn'
                 ELSE ~store'.isAuthenticated]_vars

\* a login and an updateProfile were in flight together: the login has
\* returned with success, the updateProfile still waits for its response
C30_Witness ==
    /\ store.isAuthenticated /\ SignedIn
    /\ \E c, d \in InFlight :
          /\ calls[c].pc = "returned" /\ calls[c].op = "login"
          /\ calls[c].returned.success
          /\ calls[d].pc = "pending" /\ calls[d].op = "updateProfile"

====
